---------------------------- MODULE Spec2Model ----------------------------
(***************************************************************************)
(* Smart_Bill: extraction of expense-report fields (total, currency, date, *)
(* purpose) from OCR word tokens, src/main_bill_extract.py.                *)
(*                                                                         *)
(* Text is modelled by TLA+ strings; a character is a string of length 1.  *)
(* Money is an integer number of hundredths (the amount pattern keeps at   *)
(* most two decimals, so every parsed float is such a number).  Normalized *)
(* coordinates are integer thousandths of the page; round(y, 2) yields     *)
(* hundredths.  A date is <<year, month, day, hour>>.                      *)
(***************************************************************************)
EXTENDS Integers, Sequences, FiniteSets, TLC

VARIABLES
  pc,               \* the handler's (or the called function's) position
  payload,          \* payload.pages: the request's pages
  words,            \* words collected from the pages
  lines,            \* group_words_into_lines(words)
  full_text,        \* " ".join(w.get("text", "") for w in words)
  full_text_upper,
  language,
  category,
  total,            \* hundredths
  raw_date,
  expense_date,
  currency,
  response,
  now               \* datetime.now() / datetime.today(): <<year, month, day, hour>>

vars == <<pc, payload, words, lines, full_text, full_text_upper, language, category,
          total, raw_date, expense_date, currency, response, now>>

(***************************************************************************)
(* Characters and strings                                                  *)
(***************************************************************************)
LowerLetters == "abcdefghijklmnopqrstuvwxyz"
UpperLetters == "ABCDEFGHIJKLMNOPQRSTUVWXYZ"
DigitChars == "0123456789"

Chars(s) == {SubSeq(s, i, i) : i \in 1..Len(s)}

Lower == Chars(LowerLetters)
Upper == Chars(UpperLetters)
Letters == Lower \cup Upper
Digits == Chars(DigitChars)
Digits19 == Digits \ {"0"}
\* \s of the re module, within the characters texts are made of
Whitespace == {" "}
\* \w of the re module, within the characters texts are made of
WordChars == Letters \cup Digits \cup {"_"}

CharAt(s, i) == SubSeq(s, i, i)

IndexIn(alphabet, c) == CHOOSE i \in 1..Len(alphabet) : CharAt(alphabet, i) = c

ToUpper == [c \in Lower |-> CharAt(UpperLetters, IndexIn(LowerLetters, c))]
ToLower == [c \in Upper |-> CharAt(LowerLetters, IndexIn(UpperLetters, c))]
DigitValue == [c \in Digits |-> IndexIn(DigitChars, c) - 1]

UpperChar(c) == IF c \in Lower THEN ToUpper[c] ELSE c
LowerChar(c) == IF c \in Upper THEN ToLower[c] ELSE c

RECURSIVE MapChars(_, _, _)
MapChars(s, toUpper, i) ==
  IF i > Len(s) THEN ""
  ELSE (IF toUpper THEN UpperChar(CharAt(s, i)) ELSE LowerChar(CharAt(s, i)))
       \o MapChars(s, toUpper, i + 1)

\* str.upper() and str.lower()
upper(s) == MapChars(s, TRUE, 1)
lower(s) == MapChars(s, FALSE, 1)

\* k in s
Contains(s, k) == \E i \in 1..(Len(s) - Len(k) + 1) : SubSeq(s, i, i + Len(k) - 1) = k

\* any(k in s for k in ks)
ContainsAny(s, ks) == \E n \in 1..Len(ks) : Contains(s, ks[n])

\* s.startswith(p)
StartsWith(s, p) == Len(s) >= Len(p) /\ SubSeq(s, 1, Len(p)) = p

RECURSIVE ReplaceFrom(_, _, _, _)
ReplaceFrom(s, old, new, i) ==
  IF i > Len(s) THEN ""
  ELSE (IF CharAt(s, i) = old THEN new ELSE CharAt(s, i)) \o ReplaceFrom(s, old, new, i + 1)

\* s.replace(old, new) for a character old; new may be empty
ReplaceChar(s, old, new) == ReplaceFrom(s, old, new, 1)

\* s.replace(" ", "")
RemoveSpaces(s) == ReplaceChar(s, " ", "")

RECURSIVE KeepFrom(_, _, _)
KeepFrom(s, class, i) ==
  IF i > Len(s) THEN ""
  ELSE (IF CharAt(s, i) \in class THEN CharAt(s, i) ELSE "") \o KeepFrom(s, class, i + 1)

\* re.sub("[^class]", "", s)
KeepChars(s, class) == KeepFrom(s, class, 1)

RECURSIVE Join(_, _)
\* sep.join(parts)
Join(parts, sep) ==
  IF parts = <<>> THEN ""
  ELSE IF Len(parts) = 1 THEN parts[1]
  ELSE parts[1] \o sep \o Join(Tail(parts), sep)

RECURSIVE DigitsToInt(_)
\* int(s) of a string of decimal digits; 0 for the empty string
DigitsToInt(s) ==
  IF s = "" THEN 0
  ELSE 10 * DigitsToInt(SubSeq(s, 1, Len(s) - 1)) + DigitValue[CharAt(s, Len(s))]

RECURSIVE IntToDigits(_)
IntToDigits(n) ==
  IF n < 10 THEN CharAt(DigitChars, n + 1)
  ELSE IntToDigits(n \div 10) \o CharAt(DigitChars, (n % 10) + 1)

RECURSIVE ZeroPad(_, _)
ZeroPad(s, width) == IF Len(s) >= width THEN s ELSE ZeroPad("0" \o s, width)

AllIn(s, class) == \A i \in 1..Len(s) : CharAt(s, i) \in class

(***************************************************************************)
(* Regular expressions (module re).  A pattern is a sequence of items:     *)
(*   [t |-> "wb"]                          \b                              *)
(*   [t |-> "rep", cls, lo, hi]            a greedy class{lo,hi}           *)
(*   [t |-> "alt", alts]                   alternatives tried in order,    *)
(*                                         each a sequence of classes      *)
(* MatchItems backtracks as re does and returns, for every item from k on, *)
(* the position after it, or Fail.                                         *)
(***************************************************************************)
Fail == <<0>>

Wb == [t |-> "wb"]
Rep(cls, lo, hi) == [t |-> "rep", cls |-> cls, lo |-> lo, hi |-> hi]
Alt(alts) == [t |-> "alt", alts |-> alts]
Lit(c) == Alt(<< <<{c}>> >>)

IsWordAt(s, i) == i >= 1 /\ i <= Len(s) /\ CharAt(s, i) \in WordChars

\* \b holds before position pos
IsBoundary(s, pos) == IsWordAt(s, pos - 1) # IsWordAt(s, pos)

RECURSIVE RunLength(_, _, _, _, _)
RunLength(s, pos, cls, hi, n) ==
  IF n < hi /\ pos + n <= Len(s) /\ CharAt(s, pos + n) \in cls
  THEN RunLength(s, pos, cls, hi, n + 1)
  ELSE n

ClassesMatch(s, pos, classes) ==
  /\ pos + Len(classes) - 1 <= Len(s)
  /\ \A j \in 1..Len(classes) : CharAt(s, pos + j - 1) \in classes[j]

RECURSIVE MatchItems(_, _, _, _), TryRep(_, _, _, _, _), TryAlt(_, _, _, _, _)
MatchItems(s, pos, pat, k) ==
  IF k > Len(pat) THEN <<>>
  ELSE CASE pat[k].t = "wb" ->
              IF IsBoundary(s, pos)
              THEN LET r == MatchItems(s, pos, pat, k + 1)
                   IN  IF r = Fail THEN Fail ELSE <<pos>> \o r
              ELSE Fail
         [] pat[k].t = "rep" ->
              TryRep(s, pos, pat, k, RunLength(s, pos, pat[k].cls, pat[k].hi, 0))
         [] pat[k].t = "alt" -> TryAlt(s, pos, pat, k, 1)

TryRep(s, pos, pat, k, n) ==
  IF n < pat[k].lo THEN Fail
  ELSE LET r == MatchItems(s, pos + n, pat, k + 1)
       IN  IF r # Fail THEN <<pos + n>> \o r ELSE TryRep(s, pos, pat, k, n - 1)

TryAlt(s, pos, pat, k, a) ==
  IF a > Len(pat[k].alts) THEN Fail
  ELSE LET alt == pat[k].alts[a]
           r == IF ClassesMatch(s, pos, alt)
                THEN MatchItems(s, pos + Len(alt), pat, k + 1)
                ELSE Fail
       IN  IF r # Fail THEN <<pos + Len(alt)>> \o r ELSE TryAlt(s, pos, pat, k, a + 1)

\* re.match(pat, s): the positions after each item, or Fail
Match(pat, s) == MatchItems(s, 1, pat, 1)

RECURSIVE FindAllFrom(_, _, _)
FindAllFrom(pat, s, pos) ==
  IF pos > Len(s) THEN <<>>
  ELSE LET r == MatchItems(s, pos, pat, 1)
       IN  IF r = Fail THEN FindAllFrom(pat, s, pos + 1)
           ELSE <<SubSeq(s, pos, r[Len(r)] - 1)>> \o FindAllFrom(pat, s, r[Len(r)])

\* re.findall(pat, s) for a pattern that matches no empty string and whose only
\* group spans the whole match
findall(pat, s) == FindAllFrom(pat, s, 1)

(***************************************************************************)
(* Floating point.  round(y, 2) of the double nearest to y/1000, as        *)
(* hundredths: a tie (y ending in 5) goes where the double's binary value  *)
(* lies; RoundsUp lists the ties that go up.  Two rounded values one       *)
(* hundredth apart differ, as doubles, by a little less or a little more   *)
(* than 0.01; NearRows lists the h for which (h+1)/100 - h/100 < 0.01.     *)
(***************************************************************************)
RoundsUp ==
  {5, 25, 35, 55, 65, 85, 95, 115, 135, 165, 195, 225, 255, 265, 275, 315, 325, 335,
   375, 385, 395, 405, 445, 455, 465, 505, 515, 525, 535, 545, 555, 635, 645, 655,
   665, 675, 685, 755, 765, 775, 785, 795, 805, 875, 885, 895, 905, 915, 925, 935}

NearRows == {2, 5, 7, 8, 10, 11, 14, 17, 20, 23, 28, 34, 40, 46, 56, 68, 81, 93}

\* round(y, 2), in hundredths
round2(y) ==
  IF y % 10 = 5 THEN (IF y \in RoundsUp THEN y \div 10 + 1 ELSE y \div 10)
  ELSE (y + 5) \div 10

\* abs(y - prev_y) < 0.01 for two rounded values
CloseRows(y, prev_y) ==
  LET lo == IF y < prev_y THEN y ELSE prev_y
      hi == IF y < prev_y THEN prev_y ELSE y
  IN  hi = lo \/ (hi = lo + 1 /\ lo \in NearRows)

(***************************************************************************)
(* group_words_into_lines.  A word is [text, bp, vertices]: bp tells       *)
(* whether the key "boundingPolygon" is absent, an empty object, or holds  *)
(* "normalizedVertices"; a vertex is [hasX, hasY, x, y].                   *)
(***************************************************************************)
\* w.get("boundingPolygon", {}).get("normalizedVertices", [])
Vertices(w) == IF w.bp = "present" THEN w.vertices ELSE <<>>

\* vertices and "x" in vertices[0] and "y" in vertices[0]
HasPosition(w) ==
  LET vertices == Vertices(w)
  IN  vertices # <<>> /\ vertices[1].hasX /\ vertices[1].hasY

\* the word with its keys __y and __x
Positioned(w) ==
  [text |-> w.text, y |-> round2(Vertices(w)[1].y), x |-> Vertices(w)[1].x]

RECURSIVE safe_words(_)
safe_words(ws) ==
  IF ws = <<>> THEN <<>>
  ELSE (IF HasPosition(Head(ws)) THEN <<Positioned(Head(ws))>> ELSE <<>>)
       \o safe_words(Tail(ws))

\* the sort key without its second component
KeyLeqRowOnly(a, b) == a.y <= b.y

\* the key (w["__y"], w["__x"]) of a is less than or equal to that of b
KeyLeq(a, b) == a.y < b.y \/ (a.y = b.y /\ a.x <= b.x)

RECURSIVE InsertSorted(_, _)
\* w placed after every word whose key is not greater: sorted() is stable
InsertSorted(sorted, w) ==
  IF sorted = <<>> THEN <<w>>
  ELSE IF KeyLeq(Head(sorted), w) THEN <<Head(sorted)>> \o InsertSorted(Tail(sorted), w)
  ELSE <<w>> \o sorted

RECURSIVE sorted_words(_)
sorted_words(ws) ==
  IF ws = <<>> THEN <<>>
  ELSE InsertSorted(sorted_words(SubSeq(ws, 1, Len(ws) - 1)), ws[Len(ws)])

RECURSIVE GroupLoop(_, _, _, _, _)
\* the loop over sorted_words; prev_y = -1 stands for None
GroupLoop(ws, i, out, current_line, prev_y) ==
  IF i > Len(ws)
  THEN (IF current_line # <<>> THEN Append(out, Join(current_line, " ")) ELSE out)
  ELSE IF prev_y = -1 \/ CloseRows(ws[i].y, prev_y)
  THEN GroupLoop(ws, i + 1, out, Append(current_line, ws[i].text), ws[i].y)
  ELSE GroupLoop(ws, i + 1, Append(out, Join(current_line, " ")), <<ws[i].text>>, ws[i].y)

group_words_into_lines(ws) == GroupLoop(sorted_words(safe_words(ws)), 1, <<>>, <<>>, -1)

(***************************************************************************)
(* _parse_amount_str and extract_total_amount                              *)
(***************************************************************************)
MaxAmount == 10000000

SmallNumber == 10

prioritized_keywords ==
  << "grand total", "amount payable", "amount to be paid", "net payable",
     "total payable", "total amount", "balance due", "total bill amount",
     "bill amount", "amount payable from customer", "upi payment", "net amt",
     "net amount", "total", "total general", "importe total", "total a pagar",
     "monto total", "valor total", "total líquido", "total factura" >>

invoice_keywords ==
  << "invoice", "inv no", "bill no", "receipt no", "voucher",
     "factura", "recibo", "nota fiscal" >>

base_exclude_tokens ==
  << "sub total", "subtotal", "cgst", "sgst", "vat", "tax", "discount",
     "cambio", "impuesto", "descuento" >>

\* exclude_tokens, extended by the invoice keywords when the category is "Fuel"
exclude_tokens(cat) ==
  IF cat = "Fuel" THEN base_exclude_tokens \o invoice_keywords ELSE base_exclude_tokens

\* amount_pattern: [\d,]+(?:\.\d{1,2})?
amount_pattern(s) ==
  << Rep(Digits \cup {","}, 1, Len(s)),
     Alt(<< <<{"."}, Digits, Digits>>, <<{"."}, Digits>>, <<>> >>) >>

\* re.search(r"\d+,\d{2}$", s) is not None
EndsCommaTwoDigits(s) ==
  LET n == Len(s)
  IN  /\ n >= 4
      /\ CharAt(s, n) \in Digits
      /\ CharAt(s, n - 1) \in Digits
      /\ CharAt(s, n - 2) = ","
      /\ CharAt(s, n - 3) \in Digits

CountChar(s, c) == Cardinality({i \in 1..Len(s) : CharAt(s, i) = c})

LastIndexOf(s, c) == CHOOSE i \in 1..Len(s) : CharAt(s, i) = c /\ \A j \in (i + 1)..Len(s) : CharAt(s, j) # c

\* "".join(parts[:-1]) + "." + parts[-1] for parts = s.split(".")
KeepLastDot(s) ==
  LET i == LastIndexOf(s, ".")
  IN  ReplaceChar(SubSeq(s, 1, i - 1), ".", "") \o "." \o SubSeq(s, i + 1, Len(s))

RECURSIVE StripZeros(_)
StripZeros(s) == IF Len(s) > 1 /\ CharAt(s, 1) = "0" THEN StripZeros(SubSeq(s, 2, Len(s))) ELSE s

\* every float above MaxAmount is represented by Huge
Huge == MaxAmount * 100 + 1

\* the hundredths of whole "." frac, frac of at most two digits
Hundredths(whole, frac) ==
  IF Len(StripZeros(whole)) > Len(IntToDigits(MaxAmount)) THEN Huge
  ELSE IF DigitsToInt(StripZeros(whole)) > MaxAmount THEN Huge
  ELSE 100 * DigitsToInt(whole)
       + (IF Len(frac) = 1 THEN 10 * DigitsToInt(frac) ELSE DigitsToInt(frac))

\* float(s) in hundredths for digits with at most one "." and at most two
\* decimals; -1 where float() raises ValueError
FloatHundredths(s) ==
  IF CountChar(s, ".") = 0
  THEN (IF s = "" THEN -1 ELSE Hundredths(s, ""))
  ELSE LET i == LastIndexOf(s, ".")
           whole == SubSeq(s, 1, i - 1)
           frac == SubSeq(s, i + 1, Len(s))
       IN  IF whole = "" /\ frac = "" THEN -1 ELSE Hundredths(whole, frac)

\* None is -1.  The two re.sub calls together delete every character that is
\* neither a digit nor "."
_parse_amount_str(s) ==
  IF s = "" THEN -1
  ELSE LET s1 == IF EndsCommaTwoDigits(s)
                 THEN ReplaceChar(ReplaceChar(s, ".", ""), ",", ".")
                 ELSE ReplaceChar(s, ",", "")
           s2 == KeepChars(s1, Digits \cup {"."})
           s3 == IF CountChar(s2, ".") > 1 THEN KeepLastDot(s2) ELSE s2
           val == FloatHundredths(s3)
       IN  IF val = -1 \/ val <= 0 \/ val > MaxAmount * 100 THEN -1 ELSE val

\* parse_amounts(line)
parse_amounts(line) ==
  LET found == findall(amount_pattern(line), RemoveSpaces(line))
      parsed == [i \in 1..Len(found) |-> _parse_amount_str(found[i])]
  IN  SelectSeq(parsed, LAMBDA p : p # -1)

SeqMax(s) == CHOOSE m \in {s[i] : i \in 1..Len(s)} : \A i \in 1..Len(s) : s[i] <= m

RECURSIVE Flatten(_)
Flatten(ss) == IF ss = <<>> THEN <<>> ELSE Head(ss) \o Flatten(Tail(ss))

Min(a, b) == IF a < b THEN a ELSE b

\* the lines the first loop does not skip: no exclusion token (the invoice
\* keywords are among them when the category is "Fuel")
Skipped(line, cat) ==
  \/ ContainsAny(lower(line), exclude_tokens(cat))
  \/ (ContainsAny(lower(line), invoice_keywords) /\ cat = "Fuel")

\* KeywordCandidates without the two `continue` tests on the keyword line
KeywordCandidatesOnExcluded(ls, idx, cat) ==
  IF ContainsAny(lower(ls[idx]), prioritized_keywords)
  THEN SelectSeq(Flatten([i \in 1..(Min(idx + 2, Len(ls)) - idx + 1) |->
                            parse_amounts(ls[idx + i - 1])]),
                 LAMBDA amt : amt > 0)
  ELSE <<>>

\* the amounts the first loop appends at line idx
KeywordCandidates(ls, idx, cat) ==
  IF ~Skipped(ls[idx], cat) /\ ContainsAny(lower(ls[idx]), prioritized_keywords)
  THEN SelectSeq(Flatten([i \in 1..(Min(idx + 2, Len(ls)) - idx + 1) |->
                            parse_amounts(ls[idx + i - 1])]),
                 LAMBDA amt : amt > 0)
  ELSE <<>>

safe_candidates(ls, cat) == Flatten([idx \in 1..Len(ls) |-> KeywordCandidates(ls, idx, cat)])

\* FallbackNumbers without the test a > 10
FallbackNumbersUnfiltered(ls, idx, cat) ==
  IF ContainsAny(lower(ls[idx]), exclude_tokens(cat)) THEN <<>>
  ELSE SelectSeq(parse_amounts(ls[idx]), LAMBDA a : a > 0)

\* the amounts the fallback loop appends at line idx
FallbackNumbers(ls, idx, cat) ==
  IF ContainsAny(lower(ls[idx]), exclude_tokens(cat)) THEN <<>>
  ELSE SelectSeq(parse_amounts(ls[idx]), LAMBDA a : a > SmallNumber * 100)

all_numbers(ls, cat) == Flatten([idx \in 1..Len(ls) |-> FallbackNumbers(ls, idx, cat)])

extract_total_amount(ls, text_upper, cat) ==
  LET candidates == safe_candidates(ls, cat)
      numbers == all_numbers(ls, cat)
  IN  IF candidates # <<>> THEN SeqMax(candidates)
      ELSE IF numbers # <<>> THEN SeqMax(numbers)
      ELSE 0

\* f"{total:.2f}"
format2f(cents) == IntToDigits(cents \div 100) \o "." \o ZeroPad(IntToDigits(cents % 100), 2)

(***************************************************************************)
(* datetime.strptime and strftime.  A format is a sequence of directives   *)
(* ("%d", "%m", ...) and literal characters.  _strptime turns it into a    *)
(* regular expression (a run of whitespace in the format becomes \s+,      *)
(* letters match in either case), matches it at the start of the string    *)
(* and raises ValueError when text remains or the date does not exist.     *)
(***************************************************************************)
MonthNames ==
  << "january", "february", "march", "april", "may", "june", "july", "august",
     "september", "october", "november", "december" >>

MonthAbbrs ==
  << "jan", "feb", "mar", "apr", "may", "jun", "jul", "aug", "sep", "oct", "nov", "dec" >>

\* the order of the alternatives of %B: longest name first
MonthNamesByLength == << 9, 2, 11, 12, 1, 10, 8, 3, 4, 6, 7, 5 >>

EitherCase(name) == [i \in 1..Len(name) |-> {CharAt(name, i), UpperChar(CharAt(name, i))}]

DirectiveItem(d, n) ==
  CASE d = "%d" -> Alt(<< <<{"3"}, {"0", "1"}>>, <<{"1", "2"}, Digits>>, <<{"0"}, Digits19>>,
                          <<Digits19>>, <<{" "}, Digits19>> >>)
    [] d = "%m" -> Alt(<< <<{"1"}, {"0", "1", "2"}>>, <<{"0"}, Digits19>>, <<Digits19>> >>)
    [] d = "%Y" -> Alt(<< <<Digits, Digits, Digits, Digits>> >>)
    [] d = "%y" -> Alt(<< <<Digits, Digits>> >>)
    [] d = "%H" -> Alt(<< <<{"2"}, {"0", "1", "2", "3"}>>, <<{"0", "1"}, Digits>>, <<Digits>> >>)
    [] d = "%M" -> Alt(<< <<{"0", "1", "2", "3", "4", "5"}, Digits>>, <<Digits>> >>)
    [] d = "%S" -> Alt(<< <<{"6"}, {"0", "1"}>>, <<{"0", "1", "2", "3", "4", "5"}, Digits>>,
                          <<Digits>> >>)
    [] d = "%B" -> Alt([i \in 1..12 |-> EitherCase(MonthNames[MonthNamesByLength[i]])])
    [] d = "%b" -> Alt([i \in 1..12 |-> EitherCase(MonthAbbrs[i])])
    [] d = " " -> Rep(Whitespace, 1, n)
    [] OTHER -> Lit(d)

FormatPattern(fmt, n) == [k \in 1..Len(fmt) |-> DirectiveItem(fmt[k], n)]

IsLeap(y) == (y % 4 = 0 /\ y % 100 # 0) \/ y % 400 = 0

DaysInMonth(y, m) ==
  IF m = 2 THEN (IF IsLeap(y) THEN 29 ELSE 28)
  ELSE IF m \in {4, 6, 9, 11} THEN 30 ELSE 31

\* datetime(y, m, d) exists
ValidDate(y, m, d) == y >= 1 /\ y <= 9999 /\ m \in 1..12 /\ d >= 1 /\ d <= DaysInMonth(y, m)

NoDate == <<0, 0, 0, 0>>

IndexOfName(names, v) == CHOOSE i \in 1..Len(names) : names[i] = v

\* the text the k-th item of the format matched
Field(date_str, r, k) == SubSeq(date_str, IF k = 1 THEN 1 ELSE r[k - 1], r[k] - 1)

\* the value of directive d among the fields, or dflt when the format has none
FieldValue(date_str, fmt, r, d, dflt) ==
  IF \E k \in 1..Len(fmt) : fmt[k] = d
  THEN LET v == Field(date_str, r, CHOOSE k \in 1..Len(fmt) : fmt[k] = d)
       IN  CASE d = "%B" -> IndexOfName(MonthNames, lower(v))
             [] d = "%b" -> IndexOfName(MonthAbbrs, lower(v))
             [] d = "%y" -> (IF DigitsToInt(v) <= 68 THEN 2000 ELSE 1900) + DigitsToInt(v)
             [] OTHER -> DigitsToInt(RemoveSpaces(v))
  ELSE dflt

\* datetime.strptime(date_str, fmt) as <<year, month, day, hour>>; NoDate for ValueError
strptime(date_str, fmt) ==
  LET r == Match(FormatPattern(fmt, Len(date_str)), date_str)
  IN  IF r = Fail \/ r[Len(r)] # Len(date_str) + 1 THEN NoDate
      ELSE LET y == FieldValue(date_str, fmt, r, "%Y", FieldValue(date_str, fmt, r, "%y", 1900))
               m == FieldValue(date_str, fmt, r, "%m",
                      FieldValue(date_str, fmt, r, "%B", FieldValue(date_str, fmt, r, "%b", 1)))
               d == FieldValue(date_str, fmt, r, "%d", 1)
               h == FieldValue(date_str, fmt, r, "%H", 0)
           IN  IF ValidDate(y, m, d) THEN <<y, m, d, h>> ELSE NoDate

IsoFormat == << "%Y", "-", "%m", "-", "%d" >>
IsoTimeFormat == << "%Y", "-", "%m", "-", "%d", " ", "%H", ":", "%M", ":", "%S" >>

\* dt.strftime("%Y-%m-%d")
strftime(dt) ==
  ZeroPad(IntToDigits(dt[1]), 4) \o "-" \o ZeroPad(IntToDigits(dt[2]), 2)
    \o "-" \o ZeroPad(IntToDigits(dt[3]), 2)

(***************************************************************************)
(* extract_date_from_text and get_safe_date                                *)
(***************************************************************************)
MinYear == 2010

DateSeparators == {"-", "/", "."} \cup Whitespace

date_patterns ==
  << << Wb, Rep(Digits, 1, 2), Rep(DateSeparators, 1, 1), Rep(Letters, 3, 3),
        Rep(DateSeparators, 1, 1), Rep(Digits, 2, 4), Wb >>,
     << Wb, Rep(Digits, 1, 2), Rep(DateSeparators, 1, 1), Rep(Digits, 1, 2),
        Rep(DateSeparators, 1, 1), Rep(Digits, 2, 4), Wb >>,
     << Wb, Rep(Digits, 4, 4), Rep(DateSeparators, 1, 1), Rep(Digits, 1, 2),
        Rep(DateSeparators, 1, 1), Rep(Digits, 1, 2), Wb >>,
     << Wb, Rep(Digits, 1, 2), Lit(" "), Rep(Letters, 3, 9), Lit(" "), Rep(Digits, 2, 4), Wb >>,
     << Wb, Rep(Letters, 3, 9), Lit(" "), Rep(Digits, 1, 2), Lit(","), Lit(" "),
        Rep(Digits, 4, 4), Wb >> >>

formats ==
  << << "%d", "/", "%m", "/", "%Y" >>, << "%d", "-", "%m", "-", "%Y" >>,
     << "%Y", "-", "%m", "-", "%d" >>, << "%d", " ", "%B", " ", "%Y" >>,
     << "%B", " ", "%d", ",", " ", "%Y" >>, << "%d", "/", "%m", "/", "%y" >>,
     << "%d", "-", "%m", "-", "%y" >>, << "%d", "-", "%b", "-", "%Y" >>,
     << "%d", "-", "%b", "-", "%y" >> >>

NotFound == "Not Found"

RECURSIVE TryFormats(_, _, _)
\* the loop over formats from the f-th on
TryFormats(date_str, today, f) ==
  IF f > Len(formats) THEN ""
  ELSE LET dt == strptime(date_str, formats[f])
       IN  IF dt # NoDate /\ MinYear <= dt[1] /\ dt[1] <= today[1] + 1
           THEN strftime(dt)
           ELSE TryFormats(date_str, today, f + 1)

\* parse_date_safe(date_str); None is ""
parse_date_safe(date_str, today) == TryFormats(date_str, today, 1)

\* every match of every pattern in the line, parsed, in the order the loops meet them
LineDates(line, today) ==
  LET matches == Flatten([p \in 1..Len(date_patterns) |-> findall(date_patterns[p], line)])
  IN  [i \in 1..Len(matches) |-> parse_date_safe(matches[i], today)]

RECURSIVE FirstParsedFrom(_, _)
FirstParsedFrom(parsed, i) ==
  IF i > Len(parsed) THEN ""
  ELSE IF parsed[i] # "" THEN parsed[i]
  ELSE FirstParsedFrom(parsed, i + 1)

\* the first match that parses, or ""
FirstParsed(parsed) == FirstParsedFrom(parsed, 1)

RECURSIVE DateFromLine(_, _, _)
DateFromLine(ls, i, today) ==
  IF i > Len(ls) THEN NotFound
  ELSE LET parsed == FirstParsed(LineDates(ls[i], today))
       IN  IF parsed # "" THEN parsed ELSE DateFromLine(ls, i + 1, today)

\* extract_date_from_text with the lines walked from the last to the first
extract_date_from_last(ls, today) ==
  DateFromLine([i \in 1..Len(ls) |-> ls[Len(ls) + 1 - i]], 1, today)

extract_date_from_text(ls, today) == DateFromLine(ls, 1, today)

\* get_safe_date returning its argument as it is
get_safe_date_unchecked(date_str, today) == date_str

get_safe_date(date_str, today) ==
  IF date_str = "" \/ date_str = NotFound THEN strftime(today)
  ELSE IF strptime(date_str, IsoFormat) # NoDate THEN date_str
  ELSE strftime(today)

(***************************************************************************)
(* detect_purpose                                                          *)
(***************************************************************************)
purpose_map_Miscellaneous ==
  <<
    "HOSPITAL", "CLINIC", "PHARMACY", "MEDICINE", "TABLET", "INJECTION", "LAB",
    "DIAGNOSTIC", "PATHOLOGY", "XRAY", "SCAN", "MRI", "CHEMIST", "DOCTOR", "SURGERY",
    "HOSPITAL", "CLÍNICA", "FARMACIA", "MEDICINA", "TABLETA", "INYECCIÓN", "LABORATORIO",
    "DIAGNÓSTICO", "PATOLOGÍA", "RX", "ESCANEO", "MÉDICO", "DOCTOR", "CIRUGÍA", "QUIRÓFANO",
    "HOSPITAL", "CLÍNICA", "FARMÁCIA", "MEDICAMENTO", "COMPRIMIDO", "INJEÇÃO",
    "LABORATÓRIO", "DIAGNÓSTICO", "PATOLOGIA", "RAIO-X", "EXAME", "MÉDICO", "DOUTOR",
    "CIRURGIA", "ENFERMARIA"
  >>

purpose_map_Air ==
  <<
    "AIRLINES", "FLIGHT", "TICKET", "BOARDING", "AEROLÍNEA", "VUELO", "BILLETE",
    "PASSAGEM AÉREA", "AVIÓN", "AIR", "VOO", "PASSAGEM"
  >>

purpose_map_Taxi ==
  <<
    "CAB", "TAXI", "AUTO", "RIDE", "UBER", "OLA", "RAPIDO", "BOLT", "TAXI", "COLECTIVO",
    "REMIS", "CORRIDA"
  >>

purpose_map_Car_Rental ==
  <<
    "RENTAL", "ZOOMCAR", "HERTZ", "ALQUILER", "ALUGUEL", "COCHE", "CARRO", "CAR RENTAL",
    "SELF DRIVE"
  >>

purpose_map_Parking ==
  <<
    "PARKING", "TOLL", "GARAGE", "ESTACIONAMIENTO", "PARQUEO", "PARQUEAMENTO"
  >>

purpose_map_Fuel ==
  <<
    "FUEL", "PETROL", "DIESEL", "GAS STATION", "GASOLINA", "COMBUSTÍVEL", "POSTO", "HP",
    "BPCL", "SHELL", "INDIANOIL"
  >>

purpose_map_Hotel ==
  <<
    "ROOM", "LODGE", "HOTEL", "RESORT", "HOSPEDAJE", "ALOJAMIENTO", "POUSADA", "SUITE",
    "BOOKING", "EXPEDIA", "MAKEMYTRIP"
  >>

purpose_map_Entertainment ==
  <<
    "MOVIE", "CINEMA", "THEATRE", "CONCERT", "ESPECTÁCULO", "ENTRETENIMIENTO", "DIVERSÃO",
    "SHOW", "EVENTO", "GAMING", "MÚSICA", "NETFLIX", "PRIME", "HOTSTAR", "PVR", "INOX",
    "BOOKMYSHOW"
  >>

purpose_map_Supplies ==
  <<
    "STATIONERY", "OFFICE", "PAPER", "SUPPLY", "SUMINISTROS", "PAPELERÍA", "ESCRITORIO",
    "INK", "TONER", "CARTRIDGE", "DIARY", "REGISTER", "FILE", "MARKER"
  >>

meal_keywords_Lunch ==
  <<
    "BREAKFAST", "MORNING MEAL", "TEA", "COFFEE", "SNACKS", "CAFE", "IDLI", "DOSA", "POHA",
    "BREAD", "MILK", "JUICE", "PANCAKE", "OMELETTE", "THALI", "MEAL", "MIDDAY", "CAFETERIA",
    "BUFFET", "VEG", "NON-VEG", "LUNCH BOX", "RESTAURANT BILL", "SUBWAY", "KFC",
    "PIZZA HUT", "DOMINOS", "DESAYUNO", "ALMUERZO", "CAFÉ", "PANCAKE", "SOPA", "COMIDA",
    "CAFETERÍA", "RESTAURANTE", "SNACK", "SANDWICH", "BEBIDA", "LUNCHBOX", "ENSALADA",
    "HAMBURGUESA", "PIZZA", "CAFÉ DA MANHÃ", "ALMOÇO", "LANCHES", "SORVETE", "PÃO",
    "CAFETERIA", "RESTAURANTE", "SOPA", "SANDUÍCHE", "BEBIDA", "SALADA", "HAMBÚRGUER",
    "PIZZA", "SUCO", "FRUTA"
  >>

meal_keywords_Dinner ==
  <<
    "DINNER", "SUPPER", "EVENING MEAL", "DINNER COMBO", "FINE DINE", "FOOD COURT", "ZOMATO",
    "SWIGGY", "RESTAURANT", "MEAL", "BUFFET", "SUBWAY", "DOMINOS", "KFC", "PIZZA HUT",
    "CENA", "COMIDA NOCTURNA", "RESTAURANTE", "BUFFET", "FOOD COURT", "ZOMATO", "SWIGGY",
    "DOMINOS", "KFC", "PIZZA HUT", "SUPPER", "MERIENDA", "PLATO PRINCIPAL", "FINE DINING",
    "SNACKS", "JANTAR", "RESTAURANTE", "BUFFET", "FOOD COURT", "ZOMATO", "SWIGGY",
    "DOMINOS", "KFC", "PIZZA HUT", "SUPPER", "LANCHES", "PRATO PRINCIPAL", "FINE DINING",
    "CEIA", "SNACKS"
  >>

\* the categories in the order the loop tries them, each with its keywords
purpose_map ==
  << <<"Miscellaneous", purpose_map_Miscellaneous>>, <<"Air", purpose_map_Air>>,
     <<"Taxi", purpose_map_Taxi>>, <<"Car Rental", purpose_map_Car_Rental>>,
     <<"Parking", purpose_map_Parking>>, <<"Fuel", purpose_map_Fuel>>,
     <<"Hotel", purpose_map_Hotel>>, <<"Entertainment", purpose_map_Entertainment>>,
     <<"Supplies", purpose_map_Supplies>> >>

\* meal_keywords.items(), in insertion order
meal_keywords == << <<"Lunch", meal_keywords_Lunch>>, <<"Dinner", meal_keywords_Dinner>> >>

EveningHour == 17

RECURSIVE FirstMatchFrom(_, _, _)
FirstMatchFrom(tbl, text_upper, c) ==
  IF c > Len(tbl) THEN ""
  ELSE IF ContainsAny(text_upper, tbl[c][2]) THEN tbl[c][1]
  ELSE FirstMatchFrom(tbl, text_upper, c + 1)

\* the first entry of an ordered keyword table whose keywords occur in the text, or ""
FirstMatch(tbl, text_upper) == FirstMatchFrom(tbl, text_upper, 1)

\* meal_by_time; None is "".  A missing expense_date (None) is ""
meal_by_time(date) ==
  IF date = "" \/ date = NotFound THEN ""
  ELSE LET with_time == strptime(date, IsoTimeFormat)
           dt == IF with_time # NoDate THEN with_time ELSE strptime(date, IsoFormat)
       IN  IF dt = NoDate THEN ""
           ELSE IF dt[4] < EveningHour THEN "Lunch" ELSE "Dinner"

\* detect_purpose with the meal keywords tried before the category table
detect_purpose_meal_first(text, date) ==
  LET text_upper == upper(text)
      by_category == FirstMatch(purpose_map, text_upper)
      by_meal == FirstMatch(meal_keywords, text_upper)
      by_time == meal_by_time(date)
  IN  IF by_meal # "" THEN by_meal
      ELSE IF by_category # "" THEN by_category
      ELSE IF by_time # "" THEN by_time
      ELSE "Miscellaneous"

detect_purpose(text, date) ==
  LET text_upper == upper(text)
      by_category == FirstMatch(purpose_map, text_upper)
      by_meal == FirstMatch(meal_keywords, text_upper)
      by_time == meal_by_time(date)
  IN  IF by_category # "" THEN by_category
      ELSE IF by_meal # "" THEN by_meal
      ELSE IF by_time # "" THEN by_time
      ELSE "Miscellaneous"

(***************************************************************************)
(* Language and currency (extract_expense_info)                            *)
(***************************************************************************)
signals == << "IVA", "EUROS", "GRACIAS", "FACTURA", "TOTAL", "IMPORTE", "COBRO" >>

\* what langdetect's detect(full_text) may return; "raise" stands for its exception
DetectOutcomes == {"en", "es", "pt", "hi", "raise"}

\* language after the try/except and the manual Spanish fallback
DetectedLanguage(outcome, text_upper) ==
  IF ContainsAny(text_upper, signals) THEN "es"
  ELSE IF outcome = "raise" THEN "en"
  ELSE outcome

\* the currency decision with the GST/INDIA test ahead of the symbol tests
CurrencyContextFirst(text_upper, lang) ==
  LET text_no_space == RemoveSpaces(text_upper)
  IN  IF Contains(text_upper, "GST") \/ Contains(text_upper, "INDIA") THEN "INR"
      ELSE IF ContainsAny(text_no_space, << "₹", "INR", " RS.", " RS " >>) THEN "INR"
      ELSE IF \/ ContainsAny(text_no_space, << "USD", "US$", "US DOLLAR" >>)
              \/ /\ Contains(text_no_space, "$")
                 /\ ~Contains(text_no_space, "₹")
                 /\ ~Contains(text_no_space, "RS")
      THEN "USD"
      ELSE IF ContainsAny(text_no_space, << "EUR", "€", "EURO" >>) THEN "EUR"
      ELSE IF ContainsAny(text_no_space, << "GBP", "£", "POUND" >>) THEN "GBP"
      ELSE IF ContainsAny(text_no_space, << "BRL", "R$", "REAL" >>) THEN "BRL"
      ELSE IF StartsWith(lang, "es") THEN "EUR"
      ELSE IF StartsWith(lang, "pt") THEN "BRL"
      ELSE IF StartsWith(lang, "en") THEN "USD"
      ELSE "INR"

CurrencyOf(text_upper, lang) ==
  LET text_no_space == RemoveSpaces(text_upper)
  IN  IF ContainsAny(text_no_space, << "₹", "INR", " RS.", " RS " >>) THEN "INR"
      ELSE IF \/ ContainsAny(text_no_space, << "USD", "US$", "US DOLLAR" >>)
              \/ /\ Contains(text_no_space, "$")
                 /\ ~Contains(text_no_space, "₹")
                 /\ ~Contains(text_no_space, "RS")
      THEN "USD"
      ELSE IF ContainsAny(text_no_space, << "EUR", "€", "EURO" >>) THEN "EUR"
      ELSE IF ContainsAny(text_no_space, << "GBP", "£", "POUND" >>) THEN "GBP"
      ELSE IF ContainsAny(text_no_space, << "BRL", "R$", "REAL" >>) THEN "BRL"
      ELSE IF Contains(text_upper, "GST") \/ Contains(text_upper, "INDIA") THEN "INR"
      ELSE IF StartsWith(lang, "es") THEN "EUR"
      ELSE IF StartsWith(lang, "pt") THEN "BRL"
      ELSE IF StartsWith(lang, "en") THEN "USD"
      ELSE "INR"

(***************************************************************************)
(* extract_expense_info, one action per step of the handler.  With word    *)
(* entries that hold a text and an optional bounding polygon no step       *)
(* raises, so the handler's except branch (status 500) has no action.      *)
(***************************************************************************)
RECURSIVE Collect(_, _)
\* words.extend(page.get(key, [])) over payload.pages
Collect(pages, key) ==
  IF pages = <<>> THEN <<>>
  ELSE (IF key = "words" THEN Head(pages).words ELSE Head(pages).tokens)
       \o Collect(Tail(pages), key)

\* the words list after the two loops over the pages
CollectedWords(pages) ==
  IF Collect(pages, "words") # <<>> THEN Collect(pages, "words") ELSE Collect(pages, "tokens")

NoResponse == [status |-> 0]

ErrorResponse(code, message) == [status |-> code, error |-> message]

ReadWords ==
  /\ pc = "read"
  /\ words' = CollectedWords(payload)
  /\ IF words' = <<>>
     THEN /\ response' = ErrorResponse(400, "No OCR words or tokens found.")
          /\ pc' = "done"
     ELSE /\ response' = response
          /\ pc' = "lines"
  /\ UNCHANGED <<payload, lines, full_text, full_text_upper, language, category, total,
                 raw_date, expense_date, currency, now>>

\* the full text built from the words group_words_into_lines keeps
FullTextPositioned(ws) ==
  LET kept == SelectSeq(ws, HasPosition)
  IN  Join([i \in 1..Len(kept) |-> kept[i].text], " ")

\* " ".join([w.get("text", "") for w in words])
FullText(ws) == Join([i \in 1..Len(ws) |-> ws[i].text], " ")

Reconstruct ==
  /\ pc = "lines"
  /\ lines' = group_words_into_lines(words)
  /\ full_text' = FullText(words)
  /\ full_text_upper' = upper(full_text')
  /\ pc' = "language"
  /\ UNCHANGED <<payload, words, language, category, total, raw_date, expense_date,
                 currency, response, now>>

DetectLanguage ==
  /\ pc = "language"
  /\ \E outcome \in DetectOutcomes : language' = DetectedLanguage(outcome, full_text_upper)
  /\ pc' = "purpose"
  /\ UNCHANGED <<payload, words, lines, full_text, full_text_upper, category, total,
                 raw_date, expense_date, currency, response, now>>

\* category = detect_purpose(full_text): no expense_date is passed
Classify ==
  /\ pc = "purpose"
  /\ category' = detect_purpose(full_text, "")
  /\ pc' = "total"
  /\ UNCHANGED <<payload, words, lines, full_text, full_text_upper, language, total,
                 raw_date, expense_date, currency, response, now>>

ExtractTotal ==
  /\ pc = "total"
  /\ total' = extract_total_amount(lines, full_text_upper, category)
  /\ pc' = "date"
  /\ UNCHANGED <<payload, words, lines, full_text, full_text_upper, language, category,
                 raw_date, expense_date, currency, response, now>>

ExtractDate ==
  /\ pc = "date"
  /\ raw_date' = extract_date_from_text(lines, now)
  /\ pc' = "safe_date"
  /\ UNCHANGED <<payload, words, lines, full_text, full_text_upper, language, category,
                 total, expense_date, currency, response, now>>

SafeDate ==
  /\ pc = "safe_date"
  /\ expense_date' = get_safe_date(raw_date, now)
  /\ pc' = "currency"
  /\ UNCHANGED <<payload, words, lines, full_text, full_text_upper, language, category,
                 total, raw_date, currency, response, now>>

DetectCurrency ==
  /\ pc = "currency"
  /\ currency' = CurrencyOf(full_text_upper, language)
  /\ pc' = "respond"
  /\ UNCHANGED <<payload, words, lines, full_text, full_text_upper, language, category,
                 total, raw_date, expense_date, response, now>>

Respond ==
  /\ pc = "respond"
  /\ response' = [status |-> 200,
                  DetectedLanguage |-> language,
                  ReimbursementCurrencyCode |-> currency,
                  ExpenseReportTotal |-> format2f(total),
                  Purpose |-> category,
                  ExpenseDate |-> expense_date,
                  SubmitReport |-> "Y"]
  /\ pc' = "done"
  /\ UNCHANGED <<payload, words, lines, full_text, full_text_upper, language, category,
                 total, raw_date, expense_date, currency, now>>

\* a call detect_purpose(full_text, expense_date) with a date
PurposeCall ==
  /\ pc = "call_purpose"
  /\ category' = detect_purpose(full_text, expense_date)
  /\ pc' = "returned"
  /\ UNCHANGED <<payload, words, lines, full_text, full_text_upper, language, total,
                 raw_date, expense_date, currency, response, now>>

(***************************************************************************)
(* Inputs                                                                  *)
(***************************************************************************)
WordAt(text, x, y) ==
  [text |-> text, bp |-> "present",
   vertices |-> <<[hasX |-> TRUE, hasY |-> TRUE, x |-> x, y |-> y]>>]

\* the ways a word entry lacks bounding-box data
LackKinds == {"absent", "empty", "novertices", "nox", "noy"}

WordLacking(text, kind, x, y) ==
  CASE kind = "absent" -> [text |-> text, bp |-> "absent", vertices |-> <<>>]
    [] kind = "empty" -> [text |-> text, bp |-> "empty", vertices |-> <<>>]
    [] kind = "novertices" -> [text |-> text, bp |-> "present", vertices |-> <<>>]
    [] kind = "nox" -> [text |-> text, bp |-> "present",
                        vertices |-> <<[hasX |-> FALSE, hasY |-> TRUE, x |-> x, y |-> y]>>]
    [] kind = "noy" -> [text |-> text, bp |-> "present",
                        vertices |-> <<[hasX |-> TRUE, hasY |-> FALSE, x |-> x, y |-> y]>>]

\* today's date
Todays == {<<2023, 12, 31, 0>>, <<2024, 2, 29, 0>>}

\* the increasing sequences of at most n of the indices 1..m
RECURSIVE Increasing(_, _, _)
Increasing(lo, m, n) ==
  IF n = 0 THEN {<<>>}
  ELSE {<<>>} \cup UNION {{<<i>> \o t : t \in Increasing(i + 1, m, n - 1)} : i \in lo..m}

\* the sequences of at most n distinct indices among 1..m
Distinct(m, n) ==
  UNION {{f \in [1..k -> 1..m] : \A i, j \in 1..k : i # j => f[i] # f[j]} : k \in 0..n}

Reverse(sq) == [i \in 1..Len(sq) |-> sq[Len(sq) + 1 - i]]

\* ---- requests of the handler ----
MaxDocLines == 4

\* the lines a document is made of, each the texts of its word tokens
DocLines ==
  << <<"INVOICE">>, <<"GRAND", "TOTAL", "1500.00">>, <<"15/08/2023">>, <<"UBER", "RIDE">>,
     <<"see", "you">> >>

\* the tokens of the i-th line of a page: rows 0.05 apart, tokens 0.1 apart, the
\* tokens of one row within 0.002 of each other vertically
LineWords(texts, i) ==
  [j \in 1..Len(texts) |-> WordAt(texts[j], 100 * j, 50 * i + 2 * (j % 2))]

DocWords(doc) == Flatten([i \in 1..Len(doc) |-> LineWords(DocLines[doc[i]], i)])

\* word k, if any, lacks its bounding-box data
Damaged(ws, k, kind) ==
  [i \in 1..Len(ws) |->
     IF i = k
     THEN WordLacking(ws[i].text, kind, ws[i].vertices[1].x, ws[i].vertices[1].y)
     ELSE ws[i]]

Damages(n) == {<<0, "absent">>} \cup (({1, n} \ {0}) \X LackKinds)

\* the key each of the two pages keeps its words under, and the order of the tokens
Layouts ==
  { [keys |-> <<"words", "words">>, reversed |-> FALSE],
    [keys |-> <<"tokens", "tokens">>, reversed |-> TRUE],
    [keys |-> <<"words", "tokens">>, reversed |-> FALSE] }

Page(ws, key, reversed) ==
  LET given == IF reversed THEN Reverse(ws) ELSE ws
  IN  [words |-> IF key = "words" THEN given ELSE <<>>,
       tokens |-> IF key = "tokens" THEN given ELSE <<>>]

\* two pages: the first line's words on the first
Pages(ws, first, layout) ==
  << Page(SubSeq(ws, 1, first), layout.keys[1], layout.reversed),
     Page(SubSeq(ws, first + 1, Len(ws)), layout.keys[2], layout.reversed) >>

Requests ==
  { Pages(Damaged(DocWords(doc), d[1], d[2]),
          IF doc = <<>> THEN 0 ELSE Len(DocLines[doc[1]]), layout) :
      <<doc, d, layout>> \in
        { <<doc, d, layout>> \in Increasing(1, Len(DocLines), MaxDocLines)
                                   \X ((0..Len(Flatten(DocLines))) \X LackKinds)
                                   \X Layouts :
            d \in Damages(Len(DocWords(doc))) } }

Init ==
  /\ pc = "read"
  /\ payload \in Requests
  /\ now \in Todays
  /\ words = <<>>
  /\ lines = <<>>
  /\ full_text = ""
  /\ full_text_upper = ""
  /\ language = ""
  /\ category = ""
  /\ total = 0
  /\ raw_date = ""
  /\ expense_date = ""
  /\ currency = ""
  /\ response = NoResponse

Next ==
  \/ ReadWords
  \/ Reconstruct
  \/ DetectLanguage
  \/ Classify
  \/ ExtractTotal
  \/ ExtractDate
  \/ SafeDate
  \/ DetectCurrency
  \/ Respond

Spec == Init /\ [][Next]_vars

(***************************************************************************)
(* The functions on their own: each specification draws the arguments of   *)
(* one function and applies it.                                            *)
(***************************************************************************)
\* every variable but those listed in `set` holds its initial value
Idle(set) ==
  /\ "payload" \in set \/ payload = <<>>
  /\ "words" \in set \/ words = <<>>
  /\ "lines" \in set \/ lines = <<>>
  /\ "full_text" \in set \/ full_text = ""
  /\ "full_text_upper" \in set \/ full_text_upper = ""
  /\ "language" \in set \/ language = ""
  /\ "category" \in set \/ category = ""
  /\ total = 0
  /\ raw_date = ""
  /\ "expense_date" \in set \/ expense_date = ""
  /\ currency = ""
  /\ response = NoResponse
  /\ "now" \in set \/ now = <<2024, 2, 29, 0>>

\* ---- group_words_into_lines ----
MaxWords == 3

\* two tokens at the same place, one that rounds to their row, one further right,
\* one on a lower row, and two without position
LineTokens ==
  { WordAt("A", 100, 100), WordAt("B", 100, 100), WordAt("B", 100, 104),
    WordAt("A", 200, 100), WordAt("B", 100, 120),
    WordLacking("A", "absent", 0, 0), WordLacking("B", "noy", 100, 0) }

WordLists == UNION {[1..n -> LineTokens] : n \in 0..MaxWords}

InitLines == pc = "lines" /\ words \in WordLists /\ Idle({"words"})

SpecLines == InitLines /\ [][Reconstruct]_vars

\* ---- extract_total_amount ----
MaxTotalLines == 3

TotalLines ==
  << "Total 500.00", "Grand Total: 120.00", "Sub Total: 100.00", "45.00", "999.00",
     "5.00", "Tax 50.00", "Invoice 7000", "Total 0.00" >>

TotalInputs ==
  {[i \in 1..Len(d) |-> TotalLines[d[i]]] : d \in Distinct(Len(TotalLines), MaxTotalLines)}

InitTotal ==
  /\ pc = "total"
  /\ lines \in TotalInputs
  /\ category \in {"Fuel", "Taxi"}
  /\ Idle({"lines", "category"})

SpecTotal == InitTotal /\ [][ExtractTotal]_vars

\* ---- extract_date_from_text ----
MaxDateLines == 3

DateLines ==
  << "15/08/2023", "Invoice Date 16/08/2023", "31-02-2019", "Paid on 15-Aug-2023",
     "02/01/2025", "August 17, 2023 Bill Date 18/08/2023", "GRAND TOTAL 1500.00" >>

DateInputs ==
  {[i \in 1..Len(d) |-> DateLines[d[i]]] : d \in Distinct(Len(DateLines), MaxDateLines)}

InitDate ==
  /\ pc = "date"
  /\ lines \in DateInputs
  /\ now \in Todays
  /\ Idle({"lines", "now"})

SpecDate == InitDate /\ [][ExtractDate]_vars

\* ---- detect_purpose ----
MaxPurposeWords == 3

PurposeWords == << "UBER", "BREAKFAST", "Hotel", "dinner", "thanks", "airport", "Clinic" >>

PurposeTexts ==
  {Join([i \in 1..Len(d) |-> PurposeWords[d[i]]], " ") :
     d \in Distinct(Len(PurposeWords), MaxPurposeWords)}

\* expense_date: None, the sentinel, a date, dates with a time, text that is no date
PurposeDates ==
  { "", "Not Found", "2023-08-15", "2023-08-15 09:05:00", "2023-08-15 16:59:59",
    "2023-08-15 17:00:00", "2023-08-15 23:30:00", "15/08/2023" }

InitPurpose ==
  /\ pc = "call_purpose"
  /\ full_text \in PurposeTexts
  /\ expense_date \in PurposeDates
  /\ Idle({"full_text", "expense_date"})

SpecPurpose == InitPurpose /\ [][PurposeCall]_vars

\* ---- the currency decision ----
MaxCurrencyWords == 2

CurrencyWords ==
  << "₹", "$", "USD", "GST", "INDIA", "RS", "RUPEES", "EUR", "R$", "£", "HOLA", "500" >>

CurrencyTexts ==
  {Join([i \in 1..Len(d) |-> CurrencyWords[d[i]]], " ") :
     d \in Distinct(Len(CurrencyWords), MaxCurrencyWords)}

\* the languages DetectLanguage leaves
Languages == {"en", "es", "pt", "hi"}

InitCurrency ==
  /\ pc = "currency"
  /\ full_text_upper \in CurrencyTexts
  /\ language \in Languages
  /\ Idle({"full_text_upper", "language"})

SpecCurrency == InitCurrency /\ [][DetectCurrency]_vars

(***************************************************************************)
(* Properties of extract_total_amount                                      *)
(***************************************************************************)
Range(s) == {s[i] : i \in 1..Len(s)}

SetMax(S) == CHOOSE m \in S : \A a \in S : a <= m

\* the line carries a subtotal, tax, discount or change label
HasExclusionToken(line, cat) ==
  LET low == lower(line)
  IN  \E k \in Range(exclude_tokens(cat)) : Contains(low, k)

\* the amounts on line idx and on up to two lines after it
WindowAmounts(ls, idx) ==
  UNION {Range(parse_amounts(ls[i])) : i \in idx..Min(idx + 2, Len(ls))}

\* the lines that carry keyword k and no exclusion token, with an amount in their window
YieldingLines(ls, cat, k) ==
  {idx \in 1..Len(ls) : /\ Contains(lower(ls[idx]), k)
                        /\ ~HasExclusionToken(ls[idx], cat)
                        /\ \E a \in WindowAmounts(ls, idx) : a > 0}

\* the lines that carry a total keyword and no exclusion token
KeywordLines(ls, cat) ==
  {idx \in 1..Len(ls) : /\ LET low == lower(ls[idx])
                           IN  \E k \in Range(prioritized_keywords) : Contains(low, k)
                        /\ ~HasExclusionToken(ls[idx], cat)}

\* the positive amounts in the windows of those lines
KeywordYield(ls, cat) ==
  UNION {{a \in WindowAmounts(ls, idx) : a > 0} : idx \in KeywordLines(ls, cat)}

\* the amounts on the lines without exclusion token
UnlabelledAmounts(ls, cat) ==
  UNION {Range(parse_amounts(ls[i])) : i \in {j \in 1..Len(ls) : ~HasExclusionToken(ls[j], cat)}}

\* C2: the total is the maximum amount in the window of a line carrying the
\* first keyword, in the listed order, that yields an amount; a keyword
\* later in the list never overrides it
C2_KeywordPriority ==
  pc = "date" =>
    \A k \in 1..Len(prioritized_keywords) :
      ( /\ YieldingLines(lines, category, prioritized_keywords[k]) # {}
        /\ \A j \in 1..(k - 1) : YieldingLines(lines, category, prioritized_keywords[j]) = {} )
      => \E idx \in YieldingLines(lines, category, prioritized_keywords[k]) :
            total = SetMax(WindowAmounts(lines, idx))

\* C3 as stated: without a keyword amount the total is the maximum of all
\* amounts on the lines without exclusion token, else the maximum over all
\* lines, and 0.00 only when no line holds an amount
C3_FallbackAsClaimed ==
  (pc = "date" /\ KeywordYield(lines, category) = {}) =>
    LET kept == UnlabelledAmounts(lines, category)
        every == UNION {Range(parse_amounts(lines[i])) : i \in 1..Len(lines)}
    IN  total = IF kept # {} THEN SetMax(kept)
                ELSE IF every # {} THEN SetMax(every)
                ELSE 0

\* C3 amended: without a keyword amount the total is the maximum of the
\* amounts above 10 on the lines without exclusion token, and 0.00 when
\* there is none
C3_Fallback ==
  (pc = "date" /\ KeywordYield(lines, category) = {}) =>
    LET kept == {a \in UnlabelledAmounts(lines, category) : a > 10 * 100}
    IN  total = IF kept # {} THEN SetMax(kept) ELSE 0

\* C3 witness: two bare amounts, the fallback returns the larger
C3_FallbackWitness ==
  /\ pc = "date"
  /\ lines = << "45.00", "999.00" >>
  /\ KeywordYield(lines, category) = {}
  /\ total = 99900

\* C10: a line with a total keyword and an exclusion token opens no window:
\* when a keyword line without exclusion token yields an amount the total is
\* one of those amounts, otherwise it is 0.00 or an amount of a line without
\* exclusion token; "Sub Total: 100.00", "Grand Total: 120.00" gives 120.00
C10_ExclusionOnKeywordLines ==
  pc = "date" =>
    /\ lines = << "Sub Total: 100.00", "Grand Total: 120.00" >> => total = 12000
    /\ LET yield == KeywordYield(lines, category)
       IN  IF yield # {} THEN total \in yield
           ELSE total \in UnlabelledAmounts(lines, category) \cup {0}

\* C10 witness: the subtotal line is passed over, the grand total decides
C10_ExclusionWitness ==
  /\ pc = "date"
  /\ lines = << "Sub Total: 100.00", "Grand Total: 120.00" >>
  /\ HasExclusionToken(lines[1], category)
  /\ ContainsAny(lower(lines[1]), prioritized_keywords)
  /\ total = 12000

(***************************************************************************)
(* Properties of extract_date_from_text                                    *)
(***************************************************************************)
\* the labels that introduce a date
DateLabelKeywords == << "invoice date", "bill date", "paid on" >>

\* the candidates that parse with a year in range, each with its line, the
\* pattern that found it and its rank among that pattern's matches
AcceptedCandidates(ls, today) ==
  UNION {UNION {LET found == findall(date_patterns[p], ls[i])
                    parsed == [m \in 1..Len(found) |-> parse_date_safe(found[m], today)]
                IN  {<<i, p, m, parsed[m]>> : m \in {n \in 1..Len(found) : parsed[n] # ""}} :
                  p \in 1..Len(date_patterns)} :
           i \in 1..Len(ls)}

\* candidate c is met no later than candidate d
NoLater(c, d) ==
  \/ c[1] < d[1]
  \/ c[1] = d[1] /\ c[2] < d[2]
  \/ c[1] = d[1] /\ c[2] = d[2] /\ c[3] <= d[3]

FirstCandidate(S) == CHOOSE c \in S : \A d \in S : NoLater(c, d)

\* C5 as stated: an accepted candidate on a line with a date label is
\* returned when there is one, even after an earlier accepted candidate;
\* otherwise the first accepted candidate, and "Not Found" without any
C5_LabelledPreferred ==
  pc = "safe_date" =>
    LET accepted == AcceptedCandidates(lines, now)
        labelled == {c \in accepted : ContainsAny(lower(lines[c[1]]), DateLabelKeywords)}
    IN  IF labelled # {} THEN raw_date \in {c[4] : c \in labelled}
        ELSE IF accepted # {} THEN raw_date = FirstCandidate(accepted)[4]
        ELSE raw_date = NotFound

\* C5 amended: the first accepted candidate in line order is returned, in a
\* line the first in pattern order and then from left to right, whether or
\* not a line carries a date label; "Not Found" without any
C5_FirstAccepted ==
  pc = "safe_date" =>
    LET accepted == AcceptedCandidates(lines, now)
    IN  IF accepted # {} THEN raw_date = FirstCandidate(accepted)[4]
        ELSE raw_date = NotFound

\* C5 witness: an unlabelled date on the first line wins over a labelled one
C5_FirstAcceptedWitness ==
  /\ pc = "safe_date"
  /\ lines = << "15/08/2023", "Invoice Date 16/08/2023" >>
  /\ ContainsAny(lower(lines[2]), DateLabelKeywords)
  /\ raw_date = "2023-08-15"

(***************************************************************************)
(* Properties of detect_purpose                                            *)
(***************************************************************************)
SetMin(S) == CHOOSE m \in S : \A a \in S : m <= a

\* the entries of a keyword table with a keyword in the text
MatchingEntries(tbl, text_upper) ==
  {c \in 1..Len(tbl) : \E k \in Range(tbl[c][2]) : Contains(text_upper, k)}

\* the hour of a date with or without a time of day (a date alone is at
\* hour 0); -1 when the text is no such date
HourOf(date) ==
  IF strptime(date, IsoTimeFormat) # NoDate THEN strptime(date, IsoTimeFormat)[4]
  ELSE IF strptime(date, IsoFormat) # NoDate THEN 0
  ELSE -1

\* the place of "Taxi" in the category table
TaxiEntry == CHOOSE c \in 1..Len(purpose_map) : purpose_map[c][1] = "Taxi"

SymbolCurrency(text_upper) ==
  LET t == RemoveSpaces(text_upper)
      has(k) == Contains(t, k)
  IN  IF has("₹") \/ has("INR") THEN "INR"
      ELSE IF has("USD") \/ has("US$") \/ (has("$") /\ ~has("RS")) THEN "USD"
      ELSE IF has("EUR") \/ has("€") THEN "EUR"
      ELSE IF has("GBP") \/ has("£") \/ has("POUND") THEN "GBP"
      ELSE IF has("BRL") \/ has("R$") \/ has("REAL") THEN "BRL"
      ELSE ""

\* a term of the Indian market
LocalSignal(text_upper) == Contains(text_upper, "GST") \/ Contains(text_upper, "INDIA")

LanguageCurrency(lang) ==
  CASE SubSeq(lang, 1, 2) = "es" -> "EUR"
    [] SubSeq(lang, 1, 2) = "pt" -> "BRL"
    [] SubSeq(lang, 1, 2) = "en" -> "USD"
    [] OTHER -> "INR"

\* C4 as stated: GST or INDIA decides first, then the symbols and codes,
\* then the language
C4_LocalSignalFirst ==
  pc = "respond" =>
    currency = IF LocalSignal(full_text_upper) THEN "INR"
               ELSE IF SymbolCurrency(full_text_upper) # "" THEN SymbolCurrency(full_text_upper)
               ELSE LanguageCurrency(language)

\* C4 amended: the symbols and codes decide first, then GST or INDIA, then
\* the language; text with both the rupee sign and the dollar sign is INR
C4_SymbolFirst ==
  pc = "respond" =>
    /\ currency = IF SymbolCurrency(full_text_upper) # "" THEN SymbolCurrency(full_text_upper)
                  ELSE IF LocalSignal(full_text_upper) THEN "INR"
                  ELSE LanguageCurrency(language)
    /\ (Contains(full_text_upper, "₹") /\ Contains(full_text_upper, "$")) => currency = "INR"

\* C4 witness: a currency code together with GST
C4_SymbolFirstWitness ==
  /\ pc = "respond"
  /\ full_text_upper = "USD GST"
  /\ LocalSignal(full_text_upper)
  /\ currency = "USD"

(***************************************************************************)
(* Properties of group_words_into_lines                                    *)
(***************************************************************************)
Perms(n) == {f \in [1..n -> 1..n] : \A i, j \in 1..n : i # j => f[i] # f[j]}

Permuted(ws, f) == [i \in 1..Len(ws) |-> ws[f[i]]]

\* the word lacks bounding-box data: no polygon, an empty one, no vertex, or
\* a first vertex without x or y
LacksBox(w) ==
  \/ w.bp \in {"absent", "empty"}
  \/ w.vertices = <<>>
  \/ ~w.vertices[1].hasX
  \/ ~w.vertices[1].hasY

\* words at the same x on the same rounded y carry the same text
TiesAgree(ws) ==
  \A i, j \in 1..Len(ws) :
    ( /\ ~LacksBox(ws[i]) /\ ~LacksBox(ws[j])
      /\ ws[i].vertices[1].x = ws[j].vertices[1].x
      /\ round2(ws[i].vertices[1].y) = round2(ws[j].vertices[1].y) )
    => ws[i].text = ws[j].text

\* C8 as stated: every permutation of the words gives the same lines
C8_PermutationStable ==
  pc = "language" =>
    \A f \in Perms(Len(words)) : group_words_into_lines(Permuted(words, f)) = lines

\* C8 amended: every permutation of the words gives the same lines when the
\* words that share x and rounded y share their text
C8_StableUpToTies ==
  (pc = "language" /\ TiesAgree(words)) =>
    \A f \in Perms(Len(words)) : group_words_into_lines(Permuted(words, f)) = lines

\* C8 witness: three words given bottom-up and right-to-left come out in rows
C8_StableWitness ==
  /\ pc = "language"
  /\ words = << WordAt("B", 100, 120), WordAt("A", 200, 100), WordAt("A", 100, 100) >>
  /\ TiesAgree(words)
  /\ lines = << "A A", "B" >>

(***************************************************************************)
(* Properties of extract_expense_info                                      *)
(***************************************************************************)
RECURSIVE SplitFrom(_, _, _, _)
SplitFrom(s, i, current, out) ==
  IF i > Len(s) THEN (IF current = "" THEN out ELSE Append(out, current))
  ELSE IF SubSeq(s, i, i) = " "
  THEN SplitFrom(s, i + 1, "", IF current = "" THEN out ELSE Append(out, current))
  ELSE SplitFrom(s, i + 1, current \o SubSeq(s, i, i), out)

\* the words of a text
split(s) == SplitFrom(s, 1, "", <<>>)

\* C1: the document INVOICE / GRAND TOTAL 1500.00 / 15/08/2023 / UBER RIDE
\* is answered with INR, 1500.00, Taxi and 2023-08-15
C1_EndToEnd ==
  (pc = "done" /\ lines = << "INVOICE", "GRAND TOTAL 1500.00", "15/08/2023", "UBER RIDE" >>) =>
    /\ response.status = 200
    /\ response.ReimbursementCurrencyCode = "INR"
    /\ response.ExpenseReportTotal = "1500.00"
    /\ response.Purpose = "Taxi"
    /\ response.ExpenseDate = "2023-08-15"

\* YYYY-MM-DD naming a day of the calendar
IsCalendarDate(s) ==
  /\ Len(s) = 10
  /\ SubSeq(s, 5, 5) = "-" /\ SubSeq(s, 8, 8) = "-"
  /\ AllIn(SubSeq(s, 1, 4) \o SubSeq(s, 6, 7) \o SubSeq(s, 9, 10), Digits)
  /\ DigitsToInt(SubSeq(s, 6, 7)) \in 1..12
  /\ DigitsToInt(SubSeq(s, 9, 10)) \in
       1..DaysInMonth(DigitsToInt(SubSeq(s, 1, 4)), DigitsToInt(SubSeq(s, 6, 7)))

\* the document holds no amount, no accepted date and no category or meal keyword
NoEvidence ==
  /\ \A i \in 1..Len(lines) : parse_amounts(lines[i]) = <<>>
  /\ AcceptedCandidates(lines, now) = {}
  /\ MatchingEntries(purpose_map, upper(full_text)) = {}
  /\ MatchingEntries(meal_keywords, upper(full_text)) = {}

\* C7: a request with a word is answered with success; the date of a
\* success is a calendar date YYYY-MM-DD, never "Not Found"; without any
\* evidence the answer is 0.00, Miscellaneous and the processing date
C7_Defaults ==
  pc = "done" =>
    /\ (Collect(payload, "words") # <<>> \/ Collect(payload, "tokens") # <<>>) =>
         response.status = 200
    /\ response.status = 200 =>
         /\ IsCalendarDate(response.ExpenseDate)
         /\ response.ExpenseDate # "Not Found"
    /\ (response.status = 200 /\ NoEvidence) =>
         /\ response.ExpenseReportTotal = "0.00"
         /\ response.Purpose = "Miscellaneous"
         /\ DigitsToInt(SubSeq(response.ExpenseDate, 1, 4)) = now[1]
         /\ DigitsToInt(SubSeq(response.ExpenseDate, 6, 7)) = now[2]
         /\ DigitsToInt(SubSeq(response.ExpenseDate, 9, 10)) = now[3]

\* C7 witness: a document of two plain words answered with the defaults
C7_DefaultsWitness ==
  /\ pc = "done"
  /\ lines = << "see you" >>
  /\ NoEvidence
  /\ raw_date = "Not Found"
  /\ response.status = 200
  /\ response.ExpenseReportTotal = "0.00"
  /\ response.Purpose = "Miscellaneous"
  /\ response.ExpenseDate = "2024-02-29"

=============================================================================
